---- MODULE Spec2Model ----
(***************************************************************************)
(* ChatCut: the Container session of the panel                              *)
(* (frontend/src/components/container.jsx).                                 *)
(*                                                                          *)
(* The session state is the React state of the Container component: the    *)
(* chat log `message`, `editHistory`, `chatCutUndosCount` and               *)
(* `processMediaMode`.  Every handler is an async function: the code        *)
(* between two awaits runs to completion (JavaScript is single threaded),   *)
(* so one model action is the code from one await to the next.  A handler   *)
(* reads the state variables through the closure of the render in which it  *)
(* was created; the values it read are kept in the turn's record            *)
(* (`undoCount`, `mediaMode`, `historyEntry`).  Functional updates          *)
(* (setX(prev => ...)) act on the state as it is when they run.             *)
(***************************************************************************)
EXTENDS Integers, Sequences, FiniteSets, TLC

(* ------------------------------ bounds --------------------------------- *)
\* turns started in one behaviour (sends of non-blank text and clicks on Undo
\* that reach executeUndo), when turns may overlap
MaxTurns == 3
\* sends of non-blank text, and clicks on Undo that reach executeUndo, when the
\* caller serializes the turns
MaxSerialSends == 4
MaxSerialUndoClicks == 2
\* a step that appends to the chat log is taken only while the log has at most
\* this many messages (clearConsole empties the log; no handler reads the log)
MaxLog == 0
\* a behaviour of the editing actions is one zoomInBatch / zoomOutBatch call on
\* at most MaxBatchItems track items of a fresh timeline, or at most
\* MaxEffectCalls calls of applyBlur, applyTransition and applyFilter
MaxBatchItems == 5
MaxEffectCalls == 2

\* the edit turns (onSend -> selectClips -> editClips) and the handleUndo
\* invocations that may be in flight together
EditSlots == {1, 2}
UndoSlots == {1, 2}
\* the clips of the host timeline
Items == {"clipA", "clipB"}
\* identities of the edit turns
Ids == 1..(MaxTurns + MaxSerialSends)

(* ------------------------------ inputs --------------------------------- *)
\* text typed into the footer: sequences of characters
Texts == { <<>>, <<" ">>, <<" ", "z", " ">> }

\* what an awaited call may reject with: an Error with a message, an Error
\* whose message names the backend being down / a 503, a thrown string, a
\* thrown value without a message that is no string, null or undefined
ErrKinds == {"Error", "ErrorBackendDown", "Error503", "String", "Object", "Nullish"}

\* the timeline selection, clips in selection order
Selections == { <<>>, << "clipB" >>, << "clipB", "clipA" >> }

\* the clips of the timeline that have a video component
VideoClipSets == { {}, {"clipB"}, {"clipA", "clipB"} }

\* how many file paths getSelectedMediaFilePaths may find
FilePathCounts == 0..Cardinality(Items)

NoParams == {}
SomeParams == { <<"endScale", "120">> }

\* responses of the backend client (processPrompt / processMedia): a fixed
\* shape { action, actions, parameters, message, error }, each field present
\* or not
AiResponses ==
    { [ action |-> "zoomIn", actions |-> "absent", parameters |-> "present",
        message |-> "present", error |-> "absent" ],
      [ action |-> "absent", actions |-> "absent", parameters |-> "absent",
        message |-> "absent", error |-> "absent" ],
      [ action |-> "absent", actions |-> "present", parameters |-> "absent",
        message |-> "present", error |-> "absent" ] }
    \cup
    [ action : {"absent"}, actions : {"absent"}, parameters : {"absent"},
      message : {"absent", "present"},
      error : {"SMALL_TALK", "NEEDS_SELECTION", "FILE_ACCESS_ERROR", "FILE_NOT_FOUND"} ]

(* ------------------------------ state ---------------------------------- *)
VARIABLES
    message,            \* useState: the chat log
    processMediaMode,   \* useState: send file paths to the backend
    editHistory,        \* useState: sequence of history entries
    chatCutUndosCount,  \* useState: number of trailing entries undone
    edits,              \* the edit turns in flight, by slot
    undos,              \* the handleUndo invocations in flight, by slot
    nSends,             \* non-blank sends so far
    nUndoClicks,        \* undo clicks past the early return so far
    applied,            \* host: ids of the edits dispatched with a success
    reversals,          \* host: successful executeUndo calls per edit id
    unhandled,          \* handlers whose promise rejected
    serialized,         \* the caller starts a turn only when none is in flight
    logRoom,            \* the chat log is appended to while it is at most this long
    \* services/editingActions.js and the host application
    batch,              \* the zoomInBatch / zoomOutBatch invocation
    zoom,               \* the zoomIn invocation per track item of the batch
    effect,             \* the applyBlur / applyTransition / applyFilter invocation
    undoContext,        \* host: app.beginUndoGroup / endUndoGroup can be reached
    undoGroups,         \* host: labels of the undo groups now open
    strayEnds,          \* host: app.endUndoGroup() run with no group open
    keyframes,          \* host: Motion > Scale keyframes written, per item of the batch
    componentChain,     \* host: effect components appended, per track item
    transitions,        \* host: video transitions added, per track item
    calls,              \* calls started so far, from outside the module
    \* the backend services
    backend             \* per service, its last request and what it returned

containerVars ==
    << message, processMediaMode, editHistory, chatCutUndosCount, edits, undos,
       nSends, nUndoClicks, applied, reversals, unhandled, serialized, logRoom >>

editVars ==
    << batch, zoom, effect, undoContext, undoGroups, strayEnds, keyframes,
       componentChain, transitions, calls >>

backendVars == << backend >>

vars == << containerVars, editVars, backendVars >>

(* ------------------------------ chat log ------------------------------- *)
Msg(sender, tag, n, text) == [sender |-> sender, tag |-> tag, n |-> n, text |-> text]
BotMsg(tag) == Msg("bot", tag, 0, <<>>)
BotMsgN(tag, n) == Msg("bot", tag, n, <<>>)
BotMsgT(tag, text) == Msg("bot", tag, 0, text)

\* an update that writes the new message over the log instead of after it
AddMessageReplaces(log, msg) == << msg >>

\* addMessage: setMessage(prev => [...prev, msg])
AddMessage(log, msg) == Append(log, msg)

\* writeToConsole with a string argument: one bot message
WriteToConsole(log, msg) == AddMessage(log, msg)

RECURSIVE WriteAll(_, _)
WriteAll(log, msgs) ==
    IF msgs = <<>> THEN log
    ELSE WriteAll(WriteToConsole(log, Head(msgs)), Tail(msgs))

\* the bound on the chat log
LogHasRoom == Len(message) <= logRoom

\* String.prototype.trim on a sequence of characters
RECURSIVE TrimLeft(_)
TrimLeft(t) == IF t # <<>> /\ Head(t) = " " THEN TrimLeft(Tail(t)) ELSE t
RECURSIVE TrimRight(_)
TrimRight(t) ==
    IF t # <<>> /\ t[Len(t)] = " " THEN TrimRight(SubSeq(t, 1, Len(t) - 1)) ELSE t
\* a trim that leaves the white space after the text in place
TrimLeftOnly(t) == TrimLeft(t)

Trim(t) == TrimRight(TrimLeft(t))

(* ------------------------------ history ------------------------------- *)
\* a history entry: { actionName, trackItems, previousState, parameters };
\* `id` is the identity of the entry object (the turn that created it)
NoEntry ==
    [ id |-> 0, actionName |-> "absent", trackItems |-> <<>>, previousState |-> 0,
      parameters |-> NoParams ]

\* Array.prototype.slice(0, end): a negative end counts from the end of the array
JsSlice0(arr, end) ==
    LET e == IF end < 0 THEN (IF Len(arr) + end < 0 THEN 0 ELSE Len(arr) + end)
             ELSE (IF end > Len(arr) THEN Len(arr) ELSE end)
    IN  SubSeq(arr, 1, e)

\* a history update that forgets to trim the undone entries
NewHistoryNoTrim(prev, currentUndoCount, historyEntry) == Append(prev, historyEntry)

\* a history update that puts the new entry first
NewHistoryPrepend(prev, currentUndoCount, historyEntry) == << historyEntry >> \o prev

\* the updater given to setEditHistory; currentUndoCount is the value of
\* chatCutUndosCount in the closure of the turn
NewHistory(prev, currentUndoCount, historyEntry) ==
    IF currentUndoCount > 0
    THEN Append(JsSlice0(prev, Len(prev) - currentUndoCount), historyEntry)
    ELSE Append(prev, historyEntry)

\* "Reset undo count if needed"
NewUndosCount(count, currentUndoCount) ==
    IF currentUndoCount > 0 THEN 0 ELSE count

\* remainingEdits counted one too high
RemainingEditsOffByOne(history, count) == Len(history) - count + 1

\* handleUndo: remainingEdits
RemainingEdits(history, count) == Len(history) - count

\* the index without the "- 1"
EditIndexOffByOne(history, count) == Len(history) - count

\* handleUndo: the 0-based index of the entry to undo
EditIndex(history, count) == Len(history) - count - 1

\* an updater that returns the count it was given
IncrementUndosCountLost(prev) == prev

\* the updater given to setChatCutUndosCount after a successful undo
IncrementUndosCount(prev) == prev + 1

\* the test written with >= instead of >
StoresEditAlways(successful) == successful >= 0

\* editClips: "if (result.successful > 0)", the edit is stored in the history
StoresEdit(successful) == successful > 0

\* an entry built without the snapshot of the turn
HistoryEntryNoSnapshot(turn) ==
    [ id |-> turn.id, actionName |-> turn.action, trackItems |-> turn.trackItems,
      previousState |-> 0, parameters |-> turn.parameters ]

\* editClips: the historyEntry object literal; previousState is the value the
\* turn's own capturePreviousState resolved with
HistoryEntry(turn) ==
    [ id |-> turn.id, actionName |-> turn.action, trackItems |-> turn.trackItems,
      previousState |-> turn.previousState, parameters |-> turn.parameters ]

\* canUndo with >= instead of >
CanUndoOrEqual(history, count) == Len(history) >= count

\* history[i] for a 0-based i; out of range reads undefined
HistoryAt(history, i) ==
    IF i + 1 \in DOMAIN history THEN history[i + 1] ELSE NoEntry

\* canUndo as computed on every render
CanUndo(history, count) == Len(history) > count

(* ------------------------------ turns ---------------------------------- *)
IdleEdit ==
    [ pc |-> "idle", id |-> 0, text |-> <<>>, undoCount |-> 0, mediaMode |-> FALSE,
      trackItems |-> <<>>, action |-> "absent", parameters |-> NoParams,
      previousState |-> 0 ]

IdleUndo == [ pc |-> "idle", historyEntry |-> NoEntry ]

EditsInFlight == { s \in EditSlots : edits[s].pc # "idle" }
UndosInFlight == { u \in UndoSlots : undos[u].pc # "idle" }

\* the backend requests (processPrompt / processMedia) not yet answered
OutstandingRequests == { s \in EditSlots : edits[s].pc \in {"media", "prompt"} }

\* a turn may start: in a serialized session only when no turn is in flight;
\* behaviours are followed up to the first unhandled rejection
MayStart ==
    /\ unhandled = {}
    /\ serialized => (EditsInFlight = {} /\ UndosInFlight = {})

\* the bounds on the turns of one behaviour
MaySend ==
    IF serialized THEN nSends < MaxSerialSends ELSE nSends + nUndoClicks < MaxTurns
MayClickUndo ==
    IF serialized THEN nUndoClicks < MaxSerialUndoClicks
                  ELSE nSends + nUndoClicks < MaxTurns

(* ----------------- services/editingActions.js: data -------------------- *)
\* the track items of the timeline; a batch gets the first n of them, and the
\* zoomIn invocations and the keyframes are kept for the items of the batch
TrackItems == 1..MaxBatchItems
\* the track items applyBlur, applyTransition and applyFilter are called on
EffectItems == {1}

\* host data: in point and duration of a clip, in seconds
ClipInPoint(it) == it - 1
ClipDuration(it) == 4

\* the defaults of zoomIn and zoomOut
ZoomInDefaultStartScale == 100
ZoomInDefaultEndScale == 150
ZoomOutDefaultStartScale == 150
ZoomOutDefaultEndScale == 100
ZoomDefaultStartTime == 0
\* the default of applyBlur
BlurDefault == 50
\* applyTransition: 1.0 second and alignment 0.5, counted in tenths
TransitionDefaultDuration == 10
TransitionDefaultAlignment == 5

\* an options object: `own` holds the names of its own properties, the other
\* fields their values (the value of a property that is not in `own` is unused)
OptionKeys == {"startScale", "endScale", "startTime", "duration", "interpolation", "animated"}
NoOptions ==
    [ own |-> {}, startScale |-> 0, endScale |-> 0, startTime |-> 0, duration |-> 0,
      interpolation |-> "", animated |-> FALSE ]

\* the options objects a caller passes to a batch
ZoomOptionSets ==
    { NoOptions,
      [ NoOptions EXCEPT !.own = {"endScale"}, !.endScale = 120 ],
      [ NoOptions EXCEPT !.own = {"animated"}, !.animated = TRUE ],
      [ NoOptions EXCEPT !.own = {"startScale", "endScale", "animated", "interpolation"},
                         !.startScale = 80, !.endScale = 120, !.animated = TRUE,
                         !.interpolation = "LINEAR" ],
      [ NoOptions EXCEPT !.own = {"startScale", "animated", "startTime", "duration"},
                         !.startScale = 80, !.animated = FALSE, !.startTime = 1,
                         !.duration = 2 ] }

\* Object.prototype.hasOwnProperty.call(options, key)
HasOwn(options, key) == key \in options.own

\* zoomIn: the locals read from options
ZoomInStartScale(options) ==
    IF HasOwn(options, "startScale") THEN options.startScale ELSE ZoomInDefaultStartScale
ZoomInEndScale(options) ==
    IF HasOwn(options, "endScale") THEN options.endScale ELSE ZoomInDefaultEndScale
ZoomInStartTime(options) ==
    IF HasOwn(options, "startTime") THEN options.startTime ELSE ZoomDefaultStartTime
Animated(options) ==
    IF HasOwn(options, "animated") THEN options.animated ELSE FALSE

\* the start value written whatever `animated` says
ActualStartScaleIgnoresAnimated(options) == ZoomInStartScale(options)

\* "static: same value at both ends"
ActualStartScale(options) ==
    IF Animated(options) THEN ZoomInStartScale(options) ELSE ZoomInEndScale(options)
ActualEndScale(options) == ZoomInEndScale(options)

\* options.interpolation || "BEZIER", then modeMap[interp] || BEZIER in addKeyframe
InterpolationModes == {"LINEAR", "BEZIER", "HOLD", "EASE_IN", "EASE_OUT"}
InterpMode(options) ==
    IF HasOwn(options, "interpolation") /\ options.interpolation \in InterpolationModes
    THEN options.interpolation ELSE "BEZIER"

\* duration || clipDuration, and the absolute times of the two keyframes
ZoomDuration(options, it) ==
    IF HasOwn(options, "duration") /\ options.duration # 0 THEN options.duration
    ELSE ClipDuration(it)
AbsoluteStartTime(options, it) == ClipInPoint(it) + ZoomInStartTime(options)
AbsoluteEndTime(options, it) == AbsoluteStartTime(options, it) + ZoomDuration(options, it)

\* a zoomOut that passes the defaults of zoomIn
ZoomOutRestNotMirrored(options) ==
    [ options EXCEPT !.own = options.own \cup {"startScale", "endScale"},
                     !.startScale = ZoomInStartScale(options),
                     !.endScale = ZoomInEndScale(options) ]

\* zoomOut: the object `rest` it passes to zoomIn
ZoomOutRest(options) ==
    [ options EXCEPT !.own = options.own \cup {"startScale", "endScale"},
                     !.startScale = IF HasOwn(options, "startScale") THEN options.startScale
                                    ELSE ZoomOutDefaultStartScale,
                     !.endScale = IF HasOwn(options, "endScale") THEN options.endScale
                                  ELSE ZoomOutDefaultEndScale ]

\* the label of the undo group of a zoom
ZoomLabel(options) ==
    IF Animated(options) THEN "ChatCut: Animated Zoom" ELSE "ChatCut: Static Zoom"
ChatCutLabels == {"ChatCut: Animated Zoom", "ChatCut: Static Zoom", "ChatCut Edit"}

\* a keyframe of Motion > Scale as addKeyframe writes it
Keyframe(seconds, value, interp) == [ at |-> seconds, value |-> value, interp |-> interp ]

\* the blurriness argument: what was passed and its typeof
BlurrinessArgs ==
    { [ type |-> "undefined", value |-> 0 ], [ type |-> "number", value |-> 30 ],
      [ type |-> "string", value |-> 30 ] }

\* an applyBlur that sets the default whatever it is given
BlurrinessAlwaysDefault(arg) == BlurDefault

\* "typeof blurriness === "number" ? blurriness : 50"
Blurriness(arg) == IF arg.type = "number" THEN arg.value ELSE BlurDefault

\* an argument of applyTransition as it was passed: its typeof, and its value
\* as a number (durations and alignments in tenths) or as a boolean
Undefined == [ type |-> "undefined", num |-> 0, bool |-> FALSE ]
NumberArg(n) == [ type |-> "number", num |-> n, bool |-> FALSE ]
BooleanArg(b) == [ type |-> "boolean", num |-> 0, bool |-> b ]
StringArg == [ type |-> "string", num |-> 0, bool |-> FALSE ]
NoTransitionArgs ==
    [ durationSeconds |-> Undefined, applyToStart |-> Undefined,
      transitionAlignment |-> Undefined ]
TransitionArgSets ==
    { NoTransitionArgs,
      [ durationSeconds |-> NumberArg(20), applyToStart |-> BooleanArg(FALSE),
        transitionAlignment |-> NumberArg(0) ],
      [ durationSeconds |-> StringArg, applyToStart |-> NumberArg(0),
        transitionAlignment |-> BooleanArg(TRUE) ] }

\* "typeof durationSeconds === "number" ? durationSeconds : 1.0", in tenths
DurationSeconds(arg) == IF arg.type = "number" THEN arg.num ELSE TransitionDefaultDuration
\* "typeof applyToStart === "boolean" ? applyToStart : true"
ApplyToStart(arg) == IF arg.type = "boolean" THEN arg.bool ELSE TRUE
\* "typeof transitionAlignment === "number" ? transitionAlignment : 0.5", in tenths
TransitionAlignment(arg) ==
    IF arg.type = "number" THEN arg.num ELSE TransitionDefaultAlignment

\* what the caller of applyBlur / applyTransition passed after the item
NoArgs == [ blurriness |-> [ type |-> "undefined", value |-> 0 ],
            transition |-> NoTransitionArgs ]

\* the transition the host adds to the item: the match name and the
\* AddTransitionOptions it was created with
VideoTransition(matched, applyToStart, duration, alignment) ==
    [ matchName |-> matched, applyToStart |-> applyToStart, duration |-> duration,
      forceSingleSided |-> FALSE, transitionAlignment |-> alignment ]

\* host data: the match names of the video filters and of the video transitions
GaussianBlur == "AE.ADBE Gaussian Blur 2"
FilterMatchNames == { GaussianBlur, "AE.ADBE Invert" }
TransitionMatchNames == { "AE.ADBE Cross Dissolve New" }
\* the names a caller asks for
FilterNames == { GaussianBlur, "AE.ADBE Invert", "ae.adbe invert" }
TransitionNames == { "AE.ADBE Cross Dissolve New", "ae.adbe cross dissolve new", "Wipe" }

\* String.prototype.toLowerCase on the names above
ToLowerCase(name) ==
    CASE name = "AE.ADBE Cross Dissolve New" -> "ae.adbe cross dissolve new"
      [] name = "AE.ADBE Invert" -> "ae.adbe invert"
      [] name = GaussianBlur -> "ae.adbe gaussian blur 2"
      [] name = "Wipe" -> "wipe"
      [] OTHER -> name

\* a search that takes any transition of the host for the one asked for
MatchesAnyTransition(name) == TransitionMatchNames

\* matchNameList.find(n => n.toLowerCase() === transitionName.toLowerCase())
MatchedTransitions(name) ==
    { n \in TransitionMatchNames : ToLowerCase(n) = ToLowerCase(name) }

\* an effect component of a track item and the value of its main parameter
Component(matchName, value) == [ matchName |-> matchName, value |-> value ]

\* a search that never finds the parameter
FindsNoParam(chain) == 0

\* findBlurrinessParam: the index of the first component with a Blurriness
\* parameter, 0 when there is none
FindBlurrinessParam(chain) ==
    IF \E i \in 1..Len(chain) : chain[i].matchName = GaussianBlur
    THEN CHOOSE i \in 1..Len(chain) :
            /\ chain[i].matchName = GaussianBlur
            /\ \A j \in 1..(i - 1) : chain[j].matchName # GaussianBlur
    ELSE 0

\* the invocations when nothing runs
IdleBatch ==
    [ pc |-> "idle", op |-> "none", trackItems |-> <<>>, options |-> NoOptions,
      i |-> 0, successful |-> 0, failed |-> 0, called |-> <<>>, returns |-> <<>>,
      result |-> [ successful |-> 0, failed |-> 0 ] ]
IdleZoom ==
    [ pc |-> "idle", options |-> NoOptions, startOK |-> FALSE, endOK |-> FALSE,
      begins |-> 0, ends |-> 0, ret |-> FALSE ]
IdleEffect == [ pc |-> "idle", op |-> "none" ]

\* the panel is loaded: nothing runs, the host has no ChatCut edit
Loaded ==
    /\ batch = IdleBatch
    /\ zoom = <<>>
    /\ effect = IdleEffect
    /\ undoGroups = <<>>
    /\ strayEnds = 0
    /\ keyframes = <<>>
    /\ componentChain = [it \in EffectItems |-> <<>>]
    /\ transitions = [it \in EffectItems |-> <<>>]
    /\ calls = 0

Constructed ==
    /\ message = << BotMsg("Welcome") >>
    /\ processMediaMode = TRUE
    /\ editHistory = <<>>
    /\ chatCutUndosCount = 0
    /\ edits = [s \in EditSlots |-> IdleEdit]
    /\ undos = [s \in UndoSlots |-> IdleUndo]
    /\ nSends = 0
    /\ nUndoClicks = 0
    /\ applied = {}
    /\ reversals = [i \in Ids |-> 0]
    /\ unhandled = {}

(* ------------------------- backend: data -------------------------------- *)
\* Python's None, for a name, a path or an error code
None == "None"

\* the catalog of actions a provider may name
AvailableActions == { "zoomIn", "zoomOut", "applyFilter", "applyTransition", "applyBlur" }

\* the error codes of prompt processing
ErrorCodes ==
    { "API_KEY_MISSING", "SMALL_TALK", "NEEDS_SELECTION", "NEEDS_SPECIFICATION",
      "INVALID_RESPONSE", "FILE_NOT_FOUND", "FILE_TOO_LARGE", "FILE_ACCESS_ERROR" }

\* what a provider made of a prompt: one action, several, or a failure
ProviderOutcomes ==
    { [ kind |-> "single", actions |-> << a >>, error |-> None ] : a \in AvailableActions }
    \cup { [ kind |-> "multiple", actions |-> << a, b >>, error |-> None ] :
             a \in {"zoomIn", "applyBlur"}, b \in {"applyFilter", "applyTransition"} }
    \cup { [ kind |-> "failure", actions |-> <<>>, error |-> e ] : e \in ErrorCodes }

\* a failure that keeps the confidence of a success
FailureKeepsConfidence(error) ==
    [ action |-> None, actions |-> <<>>, confidence |-> 1, error |-> error ]

\* AIProviderResult.success with one action, with a list of actions, and
\* AIProviderResult.failure
Success(action) ==
    [ action |-> action, actions |-> <<>>, confidence |-> 1, error |-> None ]
SuccessMultiple(actions) ==
    [ action |-> None, actions |-> actions, confidence |-> 1, error |-> None ]
Failure(error) ==
    [ action |-> None, actions |-> <<>>, confidence |-> 0, error |-> error ]

\* process_prompt of a provider: the ActionResult for an outcome
ProcessPrompt(outcome) ==
    CASE outcome.kind = "single" -> Success(outcome.actions[1])
      [] outcome.kind = "multiple" -> SuccessMultiple(outcome.actions)
      [] OTHER -> Failure(outcome.error)

\* the body of the progress response of the Colab server: whether it parses
\* as JSON, its status, the keys it has besides, and their values
ColabStatuses == { "processing", "complete", "error", "not_found", "queued" }
ColabResponses ==
    { [ json |-> TRUE, status |-> st, keys |-> ks, error |-> "No such job", progress |-> pr ] :
        st \in ColabStatuses, ks \in SUBSET {"error", "progress"}, pr \in {40, 100} }
    \cup { [ json |-> FALSE, status |-> "processing", keys |-> {}, error |-> "No such job",
             progress |-> 0 ] }

\* progress_data.get("error", "Job not found"), progress_data.get("progress", 0)
GetError(progress_data) ==
    IF "error" \in progress_data.keys THEN progress_data.error ELSE "Job not found"
GetProgress(progress_data) ==
    IF "progress" \in progress_data.keys THEN progress_data.progress ELSE 0

\* the report of get_colab_progress for a status it has no branch for
Processing(progress_data) ==
    [ status |-> "processing", stage |-> "processing", progress |-> GetProgress(progress_data),
      message |-> << "Processing" >>, output_path |-> None, error |-> None ]

\* a "not_found" that falls through to the last branch
NotFoundFallsThrough(progress_data) == Processing(progress_data)

\* the branch for status "not_found"
NotFound(progress_data) ==
    [ status |-> "not_found", stage |-> "unknown", progress |-> 0,
      message |-> << "Job not found: ", GetError(progress_data) >>,
      output_path |-> None, error |-> "JOB_NOT_FOUND" ]

\* get_colab_progress: the report for the response of the Colab server
GetColabProgress(progress_data) ==
    IF ~progress_data.json
    THEN [ Processing(progress_data) EXCEPT !.status = "error", !.stage = "error",
                                            !.message = << "Invalid response" >>,
                                            !.error = "INVALID_RESPONSE" ]
    ELSE CASE progress_data.status = "complete" ->
                [ Processing(progress_data) EXCEPT !.status = "complete", !.stage = "complete",
                                                   !.message = << "Complete" >>,
                                                   !.output_path = "output.mp4" ]
           [] progress_data.status = "error" ->
                [ Processing(progress_data) EXCEPT !.status = "error", !.stage = "error",
                                                   !.message = << "Error: ", GetError(progress_data) >>,
                                                   !.error = "COLAB_ERROR" ]
           [] progress_data.status = "not_found" -> NotFound(progress_data)
           [] OTHER -> Processing(progress_data)

\* no request was served yet: the services have returned nothing
BackendStarted == backend = <<>>

Init ==
    /\ Constructed /\ serialized = FALSE /\ logRoom = MaxLog
    /\ Loaded /\ undoContext = TRUE /\ BackendStarted

InitSerial ==
    /\ Constructed /\ serialized = TRUE /\ logRoom = MaxLog
    /\ Loaded /\ undoContext = TRUE /\ BackendStarted

\* an edit recorded and then undone in an earlier part of the session; its
\* identity is one that no turn of the behaviour gets
UndoneEdit ==
    [ id |-> MaxTurns + 1, actionName |-> "zoomIn", trackItems |-> << "clipB" >>,
      previousState |-> MaxTurns + 1, parameters |-> NoParams ]

\* the session after one edit was recorded and undone: the history holds the
\* entry, the cursor is 1, no turn is in flight
InitUndone ==
    /\ message = <<>>
    /\ processMediaMode = TRUE
    /\ editHistory = << UndoneEdit >>
    /\ chatCutUndosCount = 1
    /\ edits = [s \in EditSlots |-> IdleEdit]
    /\ undos = [s \in UndoSlots |-> IdleUndo]
    /\ nSends = 0
    /\ nUndoClicks = 0
    /\ applied = { UndoneEdit.id }
    /\ reversals = [i \in Ids |-> IF i = UndoneEdit.id THEN 1 ELSE 0]
    /\ unhandled = {}
    /\ serialized = FALSE
    /\ logRoom = MaxLog
    /\ Loaded /\ undoContext = TRUE /\ BackendStarted

\* a session in which one send has gone before (it selected no clip and its
\* message is still in the log), with room for one message more in the log
InitLog ==
    /\ message = << BotMsg("NoVideoClipsSelected") >>
    /\ processMediaMode = TRUE
    /\ editHistory = <<>>
    /\ chatCutUndosCount = 0
    /\ edits = [s \in EditSlots |-> IdleEdit]
    /\ undos = [s \in UndoSlots |-> IdleUndo]
    /\ nSends = 1
    /\ nUndoClicks = 0
    /\ applied = {}
    /\ reversals = [i \in Ids |-> 0]
    /\ unhandled = {}
    /\ serialized = FALSE
    /\ logRoom = MaxLog + 1
    /\ Loaded /\ undoContext = TRUE /\ BackendStarted

\* the editing actions run in a host with or without a reachable undo context
InitActions ==
    /\ Constructed /\ serialized = FALSE /\ logRoom = MaxLog
    /\ Loaded /\ undoContext \in BOOLEAN /\ BackendStarted

(* ------------------------------ undo ----------------------------------- *)
\* handleUndo up to its first await (or its return)
HandleUndo(u) ==
    /\ undos[u].pc = "idle"
    /\ \A t \in UndoSlots : t < u => undos[t].pc # "idle"
    /\ LogHasRoom
    /\ LET remainingEdits == RemainingEdits(editHistory, chatCutUndosCount)
           editIndex == EditIndex(editHistory, chatCutUndosCount)
           historyEntry == HistoryAt(editHistory, editIndex)
       IN  IF remainingEdits <= 0
           THEN /\ message' = WriteAll(message, << BotMsg("NoEditsToUndo"), BotMsg("UndoTip") >>)
                /\ UNCHANGED << undos, nUndoClicks >>
           ELSE IF historyEntry = NoEntry
           THEN /\ message' = WriteToConsole(message, BotMsg("NoHistoryEntry"))
                /\ UNCHANGED << undos, nUndoClicks >>
           ELSE /\ MayClickUndo
                /\ MayStart
                /\ message' = WriteToConsole(message,
                                  BotMsgN("AttemptingUndo", chatCutUndosCount + 1))
                /\ undos' = [undos EXCEPT ![u] = [pc |-> "exec", historyEntry |-> historyEntry]]
                /\ nUndoClicks' = nUndoClicks + 1
    /\ UNCHANGED << processMediaMode, editHistory, chatCutUndosCount, edits, nSends,
                    applied, reversals, unhandled, serialized >>
    /\ UNCHANGED << logRoom, editVars, backendVars >>

\* executeUndo(historyEntry) resolves with { successful, failed }
UndoResolved(u) ==
    /\ undos[u].pc = "exec"
    /\ LogHasRoom
    /\ \E successful \in 0..Len(undos[u].historyEntry.trackItems) :
         LET failed == Len(undos[u].historyEntry.trackItems) - successful
             id == undos[u].historyEntry.id
         IN  IF successful > 0
             THEN /\ chatCutUndosCount' = IncrementUndosCount(chatCutUndosCount)
                  /\ reversals' = [reversals EXCEPT ![id] = @ + 1]
                  /\ message' = WriteAll(message,
                        << BotMsgN("UndoCompleted", successful) >> \o
                        (IF failed > 0 THEN << BotMsgN("UndoPartlyFailed", failed) >>
                                       ELSE <<>>))
             ELSE /\ message' = WriteToConsole(message, BotMsg("UndoFailed"))
                  /\ UNCHANGED << chatCutUndosCount, reversals >>
    /\ undos' = [undos EXCEPT ![u] = IdleUndo]
    /\ UNCHANGED << processMediaMode, editHistory, edits, nSends, nUndoClicks, applied,
                    unhandled, serialized >>
    /\ UNCHANGED << logRoom, editVars, backendVars >>

\* executeUndo(historyEntry) rejects: the catch block of handleUndo
UndoThrew(u) ==
    /\ undos[u].pc = "exec"
    /\ LogHasRoom
    /\ \E err \in ErrKinds :
         IF err = "Nullish"
         THEN \* err.message on null/undefined throws inside the catch block
              /\ unhandled' = unhandled \cup {"handleUndo"}
              /\ UNCHANGED message
         ELSE /\ message' = WriteToConsole(message, BotMsgT("UndoError", << err >>))
              /\ UNCHANGED unhandled
    /\ undos' = [undos EXCEPT ![u] = IdleUndo]
    /\ UNCHANGED << processMediaMode, editHistory, chatCutUndosCount, edits, nSends,
                    nUndoClicks, applied, reversals, serialized >>
    /\ UNCHANGED << logRoom, editVars, backendVars >>

\* a redo that also rewinds the cursor
HandleRedoRewinds ==
    /\ LogHasRoom
    /\ message' = WriteToConsole(message, BotMsg("RedoNotImplemented"))
    /\ chatCutUndosCount' = 0
    /\ UNCHANGED << processMediaMode, editHistory, edits, undos,
                    nSends, nUndoClicks, applied, reversals, unhandled, serialized >>
    /\ UNCHANGED << logRoom, editVars, backendVars >>

\* handleRedo
HandleRedo ==
    /\ LogHasRoom
    /\ message' = WriteToConsole(message, BotMsg("RedoNotImplemented"))
    /\ UNCHANGED << processMediaMode, editHistory, chatCutUndosCount, edits, undos,
                    nSends, nUndoClicks, applied, reversals, unhandled, serialized >>
    /\ UNCHANGED << logRoom, editVars, backendVars >>

\* clearConsole
ClearConsole ==
    /\ message # <<>>
    /\ message' = <<>>
    /\ UNCHANGED << processMediaMode, editHistory, chatCutUndosCount, edits, undos,
                    nSends, nUndoClicks, applied, reversals, unhandled, serialized >>
    /\ UNCHANGED << logRoom, editVars, backendVars >>

\* the footer's toggle: setProcessMediaMode
SetProcessMediaMode ==
    /\ processMediaMode' = ~processMediaMode
    /\ UNCHANGED << message, editHistory, chatCutUndosCount, edits, undos,
                    nSends, nUndoClicks, applied, reversals, unhandled, serialized >>
    /\ UNCHANGED << logRoom, editVars, backendVars >>

(* ------------------------------ edit turn ------------------------------ *)
\* the clips of the selection that have a video component, in selection order
\* (a clip whose component chain cannot be read is skipped like one without video)
\* a selection handed on without the test for a video component
AllTrackItems(selection, hasVideo) == selection

VideoTrackItems(selection, hasVideo) ==
    SelectSeq(selection, LAMBDA clip : clip \in hasVideo)

\* the catch block of editClips: the messages it writes, and what it throws itself
\* (errorMessage.includes is no function when errorMessage is no string;
\* err.message throws when err is null or undefined)
EditClipsCatch(err) ==
    CASE err = "Nullish" -> [ msgs |-> <<>>, rethrown |-> "Error" ]
      [] err = "Object" ->
            [ msgs |-> << BotMsgT("EditError", << err >>) >>, rethrown |-> "Error" ]
      [] err = "ErrorBackendDown" ->
            [ msgs |-> << BotMsgT("EditError", << err >>), BotMsg("HintStartBackend") >>,
              rethrown |-> "none" ]
      [] err = "Error503" ->
            [ msgs |-> << BotMsgT("EditError", << err >>), BotMsg("HintPort3001") >>,
              rethrown |-> "none" ]
      [] OTHER -> [ msgs |-> << BotMsgT("EditError", << err >>) >>, rethrown |-> "none" ]

\* the catch block of selectClips
SelectClipsCatch(err) ==
    IF err = "Nullish"
    THEN [ msgs |-> <<>>, escapes |-> TRUE ]
    ELSE [ msgs |-> << BotMsgT("SelectError", << err >>) >>, escapes |-> FALSE ]

\* an await of editClips rejected with err: editClips' catch, then selectClips'
EditFault(s, err) ==
    LET inner == EditClipsCatch(err)
        outer == IF inner.rethrown = "none"
                 THEN [ msgs |-> <<>>, escapes |-> FALSE ]
                 ELSE SelectClipsCatch(inner.rethrown)
    IN  /\ message' = WriteAll(message, inner.msgs \o outer.msgs)
        /\ unhandled' = IF outer.escapes THEN unhandled \cup {"selectClips"} ELSE unhandled
        /\ edits' = [edits EXCEPT ![s] = IdleEdit]
        /\ UNCHANGED << processMediaMode, editHistory, chatCutUndosCount, undos, nSends,
                        nUndoClicks, applied, reversals, serialized >>

\* the messages for a response without an action
NoActionMsgs(r) ==
    IF r.error = "SMALL_TALK"
    THEN << BotMsg(IF r.message = "present" THEN "SmallTalkMessage" ELSE "SmallTalkDefault") >>
    ELSE IF r.error \in {"NEEDS_SELECTION", "NEEDS_SPECIFICATION"}
    THEN << BotMsg("NeedsMore") >>
    ELSE << BotMsg("CouldNotUnderstand") >> \o
         (IF r.error # "absent" THEN << BotMsgT("AiError", << r.error >>) >> ELSE <<>>)

\* a response that names several actions counts as one that names an action
HasActionOrActions(r) == r.action # "absent" \/ r.actions # "absent"

\* if (aiResponse.action)
HasAction(r) == r.action # "absent"

\* a media response with any file error sends the turn on to processPrompt
FallsBackOnFileError(r) == r.error \in {"FILE_ACCESS_ERROR", "FILE_NOT_FOUND"}

\* if (aiResponse.error === "FILE_ACCESS_ERROR")
FallsBack(r) == r.error = "FILE_ACCESS_ERROR"

\* editClips from "console.log([Edit] AI Response)" to the await of
\* capturePreviousState, or to its return
AfterResponse(s, r, log) ==
    /\ IF HasAction(r)
       THEN /\ message' = WriteAll(log,
                   << BotMsgT("AIExtracted", << r.action >>) >> \o
                   (IF r.message = "present" THEN << BotMsg("AIMessage") >> ELSE <<>>) \o
                   << BotMsg("CapturingPreviousState") >>)
            /\ edits' = [edits EXCEPT ![s].pc = "capture",
                                      ![s].action = r.action,
                                      ![s].parameters =
                                          IF r.parameters = "present" THEN SomeParams
                                                                      ELSE NoParams]
       ELSE /\ message' = WriteAll(log, NoActionMsgs(r))
            /\ edits' = [edits EXCEPT ![s] = IdleEdit]
    /\ UNCHANGED << processMediaMode, editHistory, chatCutUndosCount, undos, nSends,
                    nUndoClicks, applied, reversals, unhandled, serialized >>

\* onSend, and selectClips up to its first await
OnSendText(s, text) ==
    /\ edits[s].pc = "idle"
    /\ \A t \in EditSlots : t < s => edits[t].pc # "idle"
    /\ IF text = <<>> \/ Trim(text) = <<>>
       THEN UNCHANGED << message, edits, nSends >>
       ELSE /\ MaySend
            /\ MayStart
            /\ LogHasRoom
            /\ message' = AddMessage(message, Msg("user", "Text", 0, Trim(text)))
            /\ edits' = [edits EXCEPT ![s] =
                           [ IdleEdit EXCEPT !.pc = "select",
                                             !.id = nSends + 1,
                                             !.text = text,
                                             !.undoCount = chatCutUndosCount,
                                             !.mediaMode = processMediaMode ]]
            /\ nSends' = nSends + 1
    /\ UNCHANGED << processMediaMode, editHistory, chatCutUndosCount, undos,
                    nUndoClicks, applied, reversals, unhandled, serialized >>
    /\ UNCHANGED << logRoom, editVars, backendVars >>

OnSend(s) == \E text \in Texts : OnSendText(s, text)

\* selectClips: the selection has been read and filtered; editClips starts
SelectionRead(s, selection, hasVideo) ==
    /\ edits[s].pc = "select"
    /\ LogHasRoom
    /\ LET videoTrackItems == VideoTrackItems(selection, hasVideo)
       IN  IF Len(videoTrackItems) = 0
           THEN /\ message' = WriteToConsole(message, BotMsg("NoVideoClipsSelected"))
                /\ edits' = [edits EXCEPT ![s] = IdleEdit]
           ELSE /\ message' = WriteAll(message,
                       << BotMsgN("FoundClips", Len(videoTrackItems)),
                          BotMsgT("SendingToAI", edits[s].text) >>)
                /\ edits' = [edits EXCEPT
                       ![s].trackItems = videoTrackItems,
                       ![s].pc = IF edits[s].mediaMode THEN "paths" ELSE "prompt"]
    /\ UNCHANGED << processMediaMode, editHistory, chatCutUndosCount, undos, nSends,
                    nUndoClicks, applied, reversals, unhandled, serialized >>
    /\ UNCHANGED << logRoom, editVars, backendVars >>

SelectResolved(s) ==
    \E selection \in Selections, hasVideo \in VideoClipSets :
        SelectionRead(s, selection, hasVideo)

\* selectClips: reading the project, the sequence or the selection rejected
SelectThrew(s) ==
    /\ edits[s].pc = "select"
    /\ LogHasRoom
    /\ \E err \in ErrKinds :
         LET c == SelectClipsCatch(err)
         IN  /\ message' = WriteAll(message, c.msgs)
             /\ unhandled' = IF c.escapes THEN unhandled \cup {"selectClips"} ELSE unhandled
    /\ edits' = [edits EXCEPT ![s] = IdleEdit]
    /\ UNCHANGED << processMediaMode, editHistory, chatCutUndosCount, undos, nSends,
                    nUndoClicks, applied, reversals, serialized >>
    /\ UNCHANGED << logRoom, editVars, backendVars >>

\* getSelectedMediaFilePaths resolved
PathsFound(s, nPaths) ==
    /\ edits[s].pc = "paths"
    /\ LogHasRoom
    /\ IF nPaths = 0
       THEN /\ message' = WriteAll(message,
                   << BotMsg("NoAccessiblePaths"), BotMsg("OfflineTip") >>)
            /\ edits' = [edits EXCEPT ![s].pc = "prompt"]
       ELSE /\ message' = WriteToConsole(message, BotMsgN("SendingMediaPaths", nPaths))
            /\ edits' = [edits EXCEPT ![s].pc = "media"]
    /\ UNCHANGED << processMediaMode, editHistory, chatCutUndosCount, undos, nSends,
                    nUndoClicks, applied, reversals, unhandled, serialized >>
    /\ UNCHANGED << logRoom, editVars, backendVars >>

PathsResolved(s) == \E nPaths \in FilePathCounts : PathsFound(s, nPaths)

PathsThrew(s) ==
    /\ edits[s].pc = "paths"
    /\ LogHasRoom
    /\ \E err \in ErrKinds : EditFault(s, err)
    /\ UNCHANGED << logRoom, editVars, backendVars >>

\* processMedia resolved
MediaResponse(s, aiResponse) ==
    /\ edits[s].pc = "media"
    /\ LogHasRoom
    /\ IF FallsBack(aiResponse)
       THEN /\ message' = WriteToConsole(message, BotMsg("FileAccessFallback"))
            /\ edits' = [edits EXCEPT ![s].pc = "prompt"]
            /\ UNCHANGED << processMediaMode, editHistory, chatCutUndosCount, undos,
                            nSends, nUndoClicks, applied, reversals, unhandled,
                            serialized >>
       ELSE AfterResponse(s, aiResponse, message)
    /\ UNCHANGED << logRoom, editVars, backendVars >>

MediaResolved(s) == \E aiResponse \in AiResponses : MediaResponse(s, aiResponse)

MediaThrew(s) ==
    /\ edits[s].pc = "media"
    /\ LogHasRoom
    /\ \E err \in ErrKinds : EditFault(s, err)
    /\ UNCHANGED << logRoom, editVars, backendVars >>

\* processPrompt resolved
PromptResponse(s, aiResponse) ==
    /\ edits[s].pc = "prompt"
    /\ LogHasRoom
    /\ AfterResponse(s, aiResponse, message)
    /\ UNCHANGED << logRoom, editVars, backendVars >>

PromptResolved(s) == \E aiResponse \in AiResponses : PromptResponse(s, aiResponse)

PromptThrew(s) ==
    /\ edits[s].pc = "prompt"
    /\ LogHasRoom
    /\ \E err \in ErrKinds : EditFault(s, err)
    /\ UNCHANGED << logRoom, editVars, backendVars >>

\* capturePreviousState resolved; dispatchAction is called
CaptureResolved(s) ==
    /\ edits[s].pc = "capture"
    /\ edits' = [edits EXCEPT ![s].pc = "dispatch", ![s].previousState = edits[s].id]
    /\ UNCHANGED << message, processMediaMode, editHistory, chatCutUndosCount, undos,
                    nSends, nUndoClicks, applied, reversals, unhandled, serialized >>
    /\ UNCHANGED << logRoom, editVars, backendVars >>

CaptureThrew(s) ==
    /\ edits[s].pc = "capture"
    /\ LogHasRoom
    /\ \E err \in ErrKinds : EditFault(s, err)
    /\ UNCHANGED << logRoom, editVars, backendVars >>

\* dispatchAction resolved with { successful, failed }
DispatchResolved(s) ==
    /\ edits[s].pc = "dispatch"
    /\ LogHasRoom
    /\ \E successful \in 0..Len(edits[s].trackItems) :
         LET failed == Len(edits[s].trackItems) - successful
             historyEntry == HistoryEntry(edits[s])
             currentUndoCount == edits[s].undoCount
         IN  /\ applied' = IF successful > 0 THEN applied \cup { edits[s].id } ELSE applied
             /\ IF StoresEdit(successful)
                THEN
                  /\ editHistory' = NewHistory(editHistory, currentUndoCount, historyEntry)
                  /\ chatCutUndosCount' = NewUndosCount(chatCutUndosCount, currentUndoCount)
                  /\ message' = WriteAll(message,
                         << BotMsgN("ActionApplied", successful) >> \o
                         (IF failed > 0 THEN << BotMsgN("FailedOnClips", failed) >> ELSE <<>>) \o
                         << BotMsg("UsePanelUndo") >>)
                ELSE
                  /\ message' = WriteToConsole(message, BotMsg("FailedToApply"))
                  /\ UNCHANGED << editHistory, chatCutUndosCount >>
    /\ edits' = [edits EXCEPT ![s] = IdleEdit]
    /\ UNCHANGED << processMediaMode, undos, nSends, nUndoClicks, reversals, unhandled,
                    serialized >>
    /\ UNCHANGED << logRoom, editVars, backendVars >>

DispatchThrew(s) ==
    /\ edits[s].pc = "dispatch"
    /\ LogHasRoom
    /\ \E err \in ErrKinds : EditFault(s, err)
    /\ UNCHANGED << logRoom, editVars, backendVars >>

(* ------------------------------ behaviours ----------------------------- *)
Next ==
    \/ \E s \in EditSlots : OnSend(s)
    \/ \E s \in EditSlots : SelectResolved(s)
    \/ \E s \in EditSlots : SelectThrew(s)
    \/ \E s \in EditSlots : PathsResolved(s)
    \/ \E s \in EditSlots : PathsThrew(s)
    \/ \E s \in EditSlots : MediaResolved(s)
    \/ \E s \in EditSlots : MediaThrew(s)
    \/ \E s \in EditSlots : PromptResolved(s)
    \/ \E s \in EditSlots : PromptThrew(s)
    \/ \E s \in EditSlots : CaptureResolved(s)
    \/ \E s \in EditSlots : CaptureThrew(s)
    \/ \E s \in EditSlots : DispatchResolved(s)
    \/ \E s \in EditSlots : DispatchThrew(s)
    \/ \E u \in UndoSlots : HandleUndo(u)
    \/ \E u \in UndoSlots : UndoResolved(u)
    \/ \E u \in UndoSlots : UndoThrew(u)
    \/ HandleRedo
    \/ ClearConsole
    \/ SetProcessMediaMode

Spec == Init /\ [][Next]_vars

SpecSerial == InitSerial /\ [][Next]_vars

SpecUndone == InitUndone /\ [][Next]_vars

SpecLog == InitLog /\ [][Next]_vars

(* ----------------- services/editingActions.js: zoom -------------------- *)
NothingRuns ==
    /\ batch.pc \in {"idle", "returned"}
    /\ effect.pc \in {"idle", "returned"}

\* the first n track items, in timeline order
FirstItems(n) == [k \in 1..n |-> k]

\* zoomInBatch / zoomOutBatch up to the for loop
EnterBatch(op) ==
    /\ NothingRuns
    /\ calls = 0
    /\ calls' = calls + 1
    /\ \E n \in 0..Cardinality(TrackItems), options \in ZoomOptionSets :
         /\ batch' = [ IdleBatch EXCEPT !.pc = "loop", !.op = op,
                                        !.trackItems = FirstItems(n),
                                        !.options = options ]
         /\ zoom' = [it \in 1..n |-> IdleZoom]
         /\ keyframes' = [it \in 1..n |-> <<>>]
    /\ UNCHANGED << effect, undoGroups, strayEnds, componentChain, transitions >>
    /\ UNCHANGED << containerVars, undoContext, backendVars >>

ZoomInBatch == EnterBatch("zoomInBatch")

ZoomOutBatch == EnterBatch("zoomOutBatch")

\* a loop that goes on without awaiting the call
NotAwaited == "loop"

\* "var ok = await zoomIn(...)": the loop waits for the call to return
Awaited == "await"

\* the options zoomIn is called with by the batch
CallOptions(op, options) ==
    IF op = "zoomOutBatch" THEN ZoomOutRest(options) ELSE options

\* the loop body calls zoomIn / zoomOut on the next item
BatchCallItem ==
    /\ batch.pc = "loop"
    /\ Len(batch.called) < Len(batch.trackItems)
    /\ LET it == batch.trackItems[Len(batch.called) + 1]
       IN  /\ zoom[it].pc = "idle"
           /\ zoom' = [zoom EXCEPT ![it] =
                         [ IdleZoom EXCEPT !.pc = "validate",
                                           !.options = CallOptions(batch.op, batch.options) ]]
           /\ batch' = [batch EXCEPT !.pc = Awaited, !.called = Append(@, it)]
    /\ UNCHANGED << effect, undoGroups, strayEnds, keyframes, componentChain,
                    transitions, calls >>
    /\ UNCHANGED << containerVars, undoContext, backendVars >>

\* a count that takes every item for a failure
CountFailedAlways(failed, ok) == failed + 1

\* "if (ok) successful++; else failed++;"
CountSuccessful(successful, ok) == IF ok THEN successful + 1 ELSE successful
CountFailed(failed, ok) == IF ok THEN failed ELSE failed + 1

\* the awaited call returned (or threw): count it and go on with the loop
BatchItemReturned ==
    /\ batch.pc \in {"loop", "await"}
    /\ \E it \in DOMAIN zoom :
         /\ zoom[it].pc \in {"returned", "threw"}
         /\ zoom' = [zoom EXCEPT ![it] = IdleZoom]
         /\ IF zoom[it].pc = "threw"
            THEN batch' = [batch EXCEPT !.pc = "threw"]
            ELSE batch' = [batch EXCEPT
                     !.pc = "loop",
                     !.i = @ + 1,
                     !.successful = CountSuccessful(@, zoom[it].ret),
                     !.failed = CountFailed(@, zoom[it].ret),
                     !.returns = Append(@, zoom[it].ret) ]
    /\ UNCHANGED << effect, undoGroups, strayEnds, keyframes, componentChain,
                    transitions, calls >>
    /\ UNCHANGED << containerVars, undoContext, backendVars >>

\* the loop condition fails: return { successful, failed }
BatchReturn ==
    /\ batch.pc = "loop"
    /\ ~(batch.i < Len(batch.trackItems))
    /\ batch' = [batch EXCEPT !.pc = "returned",
                              !.result = [ successful |-> batch.successful,
                                           failed |-> batch.failed ]]
    /\ UNCHANGED << zoom, effect, undoGroups, strayEnds, keyframes, componentChain,
                    transitions, calls >>
    /\ UNCHANGED << containerVars, undoContext, backendVars >>

ZoomReturn(frame, value) == [frame EXCEPT !.pc = "returned", !.ret = value]

\* a zoomIn without its try / catch
ZoomInRethrows(frame) == [frame EXCEPT !.pc = "threw"]

\* an awaited call of zoomIn threw: its catch block
ZoomInOnThrow(frame) == [frame EXCEPT !.pc = "catchEnd"]

\* a step of zoomIn on item `it` that reads from the host: it resolves with a
\* value, with null / an invalid result (when it can), or throws
ZoomLookup(it, pc, next, nullable) ==
    /\ zoom[it].pc = pc
    /\ \E outcome \in {"ok", "throws"} \cup (IF nullable THEN {"none"} ELSE {}) :
         zoom' = [zoom EXCEPT ![it] =
                    CASE outcome = "ok" -> [@ EXCEPT !.pc = next]
                      [] outcome = "none" -> ZoomReturn(@, FALSE)
                      [] OTHER -> ZoomInOnThrow(@) ]
    /\ UNCHANGED << batch, effect, undoGroups, strayEnds, keyframes, componentChain,
                    transitions, calls >>
    /\ UNCHANGED << containerVars, undoContext, backendVars >>

\* await validateClip(trackItem)
ValidateClip(it) == ZoomLookup(it, "validate", "project", TRUE)

\* await ppro.Project.getActiveProject()
ZoomGetActiveProject(it) == ZoomLookup(it, "project", "param", TRUE)

\* await getMotionScaleParam(trackItem, project)
GetMotionScaleParam(it) == ZoomLookup(it, "param", "timing", TRUE)

\* await getClipDuration(trackItem); await getClipInPoint(trackItem)
GetClipTiming(it) == ZoomLookup(it, "timing", "logInfo", TRUE)

\* await logClipInfo(trackItem)
LogClipInfo(it) == ZoomLookup(it, "logInfo", "begin", FALSE)

\* beginUndoGroup(title): the group is opened in the host, or, without a
\* reachable undo context, the attempt is only logged (a script that the host
\* rejects is logged in the same way)
BeginUndoGroup(it) ==
    /\ zoom[it].pc = "begin"
    /\ zoom' = [zoom EXCEPT ![it].pc = "startKf", ![it].begins = @ + 1]
    /\ undoGroups' = IF undoContext THEN Append(undoGroups, ZoomLabel(zoom[it].options))
                     ELSE undoGroups
    /\ UNCHANGED << batch, effect, strayEnds, keyframes, componentChain, transitions,
                    calls >>
    /\ UNCHANGED << containerVars, undoContext, backendVars >>

\* addKeyframe at the start time resolved: true with the keyframe written, or
\* false
StartKeyframe(it) ==
    /\ zoom[it].pc = "startKf"
    /\ \E startOK \in BOOLEAN :
         LET o == zoom[it].options
         IN  IF startOK
             THEN /\ keyframes' = [keyframes EXCEPT ![it] =
                         Append(@, Keyframe(AbsoluteStartTime(o, it), ActualStartScale(o),
                                            InterpMode(o)))]
                  /\ zoom' = [zoom EXCEPT ![it].pc = "endKf", ![it].startOK = TRUE]
             ELSE /\ zoom' = [zoom EXCEPT ![it].pc = "endGroupStartFailed"]
                  /\ UNCHANGED keyframes
    /\ UNCHANGED << batch, effect, undoGroups, strayEnds, componentChain, transitions,
                    calls >>
    /\ UNCHANGED << containerVars, undoContext, backendVars >>

\* addKeyframe at the end time resolved
EndKeyframe(it) ==
    /\ zoom[it].pc = "endKf"
    /\ \E endOK \in BOOLEAN :
         LET o == zoom[it].options
         IN  /\ keyframes' = IF endOK
                             THEN [keyframes EXCEPT ![it] =
                                     Append(@, Keyframe(AbsoluteEndTime(o, it),
                                                        ActualEndScale(o), InterpMode(o)))]
                             ELSE keyframes
             /\ zoom' = [zoom EXCEPT ![it].pc = "endGroup", ![it].endOK = endOK]
    /\ UNCHANGED << batch, effect, undoGroups, strayEnds, componentChain, transitions,
                    calls >>
    /\ UNCHANGED << containerVars, undoContext, backendVars >>

\* a zoomIn that returns without closing the group
EndUndoGroupCallSkipped(it, pc, value) ==
    /\ zoom[it].pc = pc
    /\ zoom' = [zoom EXCEPT ![it] = ZoomReturn(@, value)]
    /\ UNCHANGED << undoGroups, strayEnds >>
    /\ UNCHANGED << batch, effect, keyframes, componentChain, transitions, calls >>
    /\ UNCHANGED << containerVars, undoContext, backendVars >>

\* endUndoGroup() awaited by zoomIn at `pc`, which then returns `value`
EndUndoGroupCall(it, pc, value) ==
    /\ zoom[it].pc = pc
    /\ zoom' = [zoom EXCEPT ![it] = ZoomReturn([@ EXCEPT !.ends = @ + 1], value)]
    /\ IF ~undoContext THEN UNCHANGED << undoGroups, strayEnds >>
       ELSE IF undoGroups # <<>>
       THEN /\ undoGroups' = SubSeq(undoGroups, 1, Len(undoGroups) - 1)
            /\ UNCHANGED strayEnds
       ELSE /\ strayEnds' = strayEnds + 1
            /\ UNCHANGED undoGroups
    /\ UNCHANGED << batch, effect, keyframes, componentChain, transitions, calls >>
    /\ UNCHANGED << containerVars, undoContext, backendVars >>

\* "if (!startOK) { await endUndoGroup(); return false; }"
EndUndoGroupStartFailed(it) == EndUndoGroupCall(it, "endGroupStartFailed", FALSE)

\* "await endUndoGroup(); if (!endOK) return false; ... return true;"
EndUndoGroup(it) == EndUndoGroupCall(it, "endGroup", zoom[it].endOK)

\* the catch block of zoomIn: "try { await endUndoGroup(); } catch (_) {}"
CatchEndUndoGroup(it) == EndUndoGroupCall(it, "catchEnd", FALSE)

(* ------- services/editingActions.js: blur, transition, filter ---------- *)
EffectReturn(value) == effect' = [effect EXCEPT !.pc = "returned", !.ret = value]

\* an operation without its try / catch
EffectRethrows == effect' = [effect EXCEPT !.pc = "threw", !.faulted = TRUE]

\* an awaited host call threw or rejected: "catch (err) { log(...); return false; }"
EffectOnThrow ==
    effect' = [effect EXCEPT !.pc = "returned", !.ret = FALSE, !.faulted = TRUE]

\* a step of applyBlur / applyTransition / applyFilter that only reads from the
\* host or builds an object: on a throw the catch block returns false
EffectLookup(op, pc, next, nullable) ==
    /\ effect.op = op
    /\ effect.pc = pc
    /\ \E outcome \in {"ok", "throws"} \cup (IF nullable THEN {"none"} ELSE {}) :
         CASE outcome = "ok" -> effect' = [effect EXCEPT !.pc = next]
           [] outcome = "none" -> EffectReturn(FALSE)
           [] OTHER -> EffectOnThrow
    /\ UNCHANGED << batch, zoom, undoGroups, strayEnds, keyframes, componentChain,
                    transitions, calls >>
    /\ UNCHANGED << containerVars, undoContext, backendVars >>

\* a call of one of the three on a track item, up to its first await
EnterEffect(op, given, name, pc) ==
    /\ NothingRuns
    /\ batch.pc = "idle"
    /\ calls < MaxEffectCalls
    /\ calls' = calls + 1
    /\ \E it \in EffectItems :
         effect' = [ pc |-> pc, op |-> op, item |-> it, given |-> given, name |-> name,
                     blurriness |-> Blurriness(given.blurriness),
                     durationSeconds |-> DurationSeconds(given.transition.durationSeconds),
                     applyToStart |-> ApplyToStart(given.transition.applyToStart),
                     transitionAlignment |->
                         TransitionAlignment(given.transition.transitionAlignment),
                     appended |-> 0, faulted |-> FALSE, ret |-> FALSE ]
    /\ UNCHANGED << batch, zoom, undoGroups, strayEnds, keyframes, componentChain,
                    transitions >>
    /\ UNCHANGED << containerVars, undoContext, backendVars >>

\* applyBlur(trackItem, blurriness)
ApplyBlur ==
    \E arg \in BlurrinessArgs :
       EnterEffect("applyBlur", [NoArgs EXCEPT !.blurriness = arg], "", "project")

\* await ppro.Project.getActiveProject()
BlurGetActiveProject == EffectLookup("applyBlur", "project", "chain", TRUE)

\* await trackItem.getComponentChain()
BlurGetComponentChain == EffectLookup("applyBlur", "chain", "find", TRUE)

\* await findBlurrinessParam(), before and after the append
BlurFindParam ==
    /\ effect.op = "applyBlur"
    /\ effect.pc \in {"find", "findAgain"}
    /\ \E throws \in BOOLEAN :
         IF throws THEN EffectOnThrow
         ELSE IF FindBlurrinessParam(componentChain[effect.item]) # 0
         THEN effect' = [effect EXCEPT !.pc = "setValue"]
         ELSE IF effect.pc = "find"
         THEN effect' = [effect EXCEPT !.pc = "create"]
         ELSE EffectReturn(FALSE)
    /\ UNCHANGED << batch, zoom, undoGroups, strayEnds, keyframes, componentChain,
                    transitions, calls >>
    /\ UNCHANGED << containerVars, undoContext, backendVars >>

\* await createComponent(...); await createAppendComponentAction(...)
BlurCreateComponent == EffectLookup("applyBlur", "create", "append", FALSE)

\* await executeAction(project, appendAction)
BlurAppendComponent ==
    /\ effect.op = "applyBlur"
    /\ effect.pc = "append"
    /\ \E done \in BOOLEAN :
         IF done
         THEN /\ componentChain' = [componentChain EXCEPT ![effect.item] =
                                        Append(@, Component(GaussianBlur, 0))]
              /\ effect' = [effect EXCEPT !.pc = "findAgain", !.appended = @ + 1]
         ELSE /\ EffectOnThrow
              /\ UNCHANGED componentChain
    /\ UNCHANGED << batch, zoom, undoGroups, strayEnds, keyframes, transitions, calls >>
    /\ UNCHANGED << containerVars, undoContext, backendVars >>

\* createKeyframe, createSetValueAction, await executeAction(project, setAction)
BlurSetValue ==
    /\ effect.op = "applyBlur"
    /\ effect.pc = "setValue"
    /\ \E done \in BOOLEAN :
         IF done
         THEN /\ componentChain' = [componentChain EXCEPT ![effect.item] =
                    [@ EXCEPT ![FindBlurrinessParam(@)].value = effect.blurriness]]
              /\ EffectReturn(TRUE)
         ELSE /\ EffectOnThrow
              /\ UNCHANGED componentChain
    /\ UNCHANGED << batch, zoom, undoGroups, strayEnds, keyframes, transitions, calls >>
    /\ UNCHANGED << containerVars, undoContext, backendVars >>

\* applyTransition(item, transitionName, ...)
ApplyTransition ==
    \E name \in TransitionNames, args \in TransitionArgSets :
       EnterEffect("applyTransition", [NoArgs EXCEPT !.transition = args], name,
                   "matchNames")

\* await getVideoTransitionMatchNames(), and the search for the name
TransitionGetMatchNames ==
    /\ effect.op = "applyTransition"
    /\ effect.pc = "matchNames"
    /\ \E throws \in BOOLEAN :
         IF throws THEN EffectOnThrow
         ELSE IF MatchedTransitions(effect.name) = {} THEN EffectReturn(FALSE)
         ELSE effect' = [effect EXCEPT !.pc = "create",
                            !.name = CHOOSE n \in MatchedTransitions(effect.name) : TRUE]
    /\ UNCHANGED << batch, zoom, undoGroups, strayEnds, keyframes, componentChain,
                    transitions, calls >>
    /\ UNCHANGED << containerVars, undoContext, backendVars >>

\* createVideoTransition, the options, createWithSeconds, getActiveProject,
\* createAddVideoTransitionAction
TransitionCreate == EffectLookup("applyTransition", "create", "execute", FALSE)

\* await executeAction(project, action)
TransitionExecute ==
    /\ effect.op = "applyTransition"
    /\ effect.pc = "execute"
    /\ \E done \in BOOLEAN :
         IF done
         THEN /\ transitions' = [transitions EXCEPT ![effect.item] =
                    Append(@, VideoTransition(effect.name, effect.applyToStart,
                                              effect.durationSeconds,
                                              effect.transitionAlignment))]
              /\ EffectReturn(TRUE)
         ELSE /\ EffectOnThrow
              /\ UNCHANGED transitions
    /\ UNCHANGED << batch, zoom, undoGroups, strayEnds, keyframes, componentChain, calls >>
    /\ UNCHANGED << containerVars, undoContext, backendVars >>

\* applyFilter(item, filterName)
ApplyFilter ==
    \E name \in FilterNames : EnterEffect("applyFilter", NoArgs, name, "matchNames")

\* await getMatchNames(), and matchNames.indexOf(filterName)
FilterGetMatchNames ==
    /\ effect.op = "applyFilter"
    /\ effect.pc = "matchNames"
    /\ \E throws \in BOOLEAN :
         IF throws THEN EffectOnThrow
         ELSE IF effect.name \notin FilterMatchNames THEN EffectReturn(FALSE)
         ELSE effect' = [effect EXCEPT !.pc = "create"]
    /\ UNCHANGED << batch, zoom, undoGroups, strayEnds, keyframes, componentChain,
                    transitions, calls >>
    /\ UNCHANGED << containerVars, undoContext, backendVars >>

\* createComponent, getComponentChain, getActiveProject, createAppendComponentAction
FilterCreate == EffectLookup("applyFilter", "create", "execute", FALSE)

\* await executeAction(project, action)
FilterExecute ==
    /\ effect.op = "applyFilter"
    /\ effect.pc = "execute"
    /\ \E done \in BOOLEAN :
         IF done
         THEN /\ componentChain' = [componentChain EXCEPT ![effect.item] =
                                        Append(@, Component(effect.name, 0))]
              /\ EffectReturn(TRUE)
         ELSE /\ EffectOnThrow
              /\ UNCHANGED componentChain
    /\ UNCHANGED << batch, zoom, undoGroups, strayEnds, keyframes, transitions, calls >>
    /\ UNCHANGED << containerVars, undoContext, backendVars >>

NextActions ==
    \/ ZoomInBatch
    \/ ZoomOutBatch
    \/ BatchCallItem
    \/ BatchItemReturned
    \/ BatchReturn
    \/ \E it \in DOMAIN zoom : ValidateClip(it)
    \/ \E it \in DOMAIN zoom : ZoomGetActiveProject(it)
    \/ \E it \in DOMAIN zoom : GetMotionScaleParam(it)
    \/ \E it \in DOMAIN zoom : GetClipTiming(it)
    \/ \E it \in DOMAIN zoom : LogClipInfo(it)
    \/ \E it \in DOMAIN zoom : BeginUndoGroup(it)
    \/ \E it \in DOMAIN zoom : StartKeyframe(it)
    \/ \E it \in DOMAIN zoom : EndUndoGroupStartFailed(it)
    \/ \E it \in DOMAIN zoom : EndKeyframe(it)
    \/ \E it \in DOMAIN zoom : EndUndoGroup(it)
    \/ \E it \in DOMAIN zoom : CatchEndUndoGroup(it)
    \/ ApplyBlur
    \/ BlurGetActiveProject
    \/ BlurGetComponentChain
    \/ BlurFindParam
    \/ BlurCreateComponent
    \/ BlurAppendComponent
    \/ BlurSetValue
    \/ ApplyTransition
    \/ TransitionGetMatchNames
    \/ TransitionCreate
    \/ TransitionExecute
    \/ ApplyFilter
    \/ FilterGetMatchNames
    \/ FilterCreate
    \/ FilterExecute

SpecActions == InitActions /\ [][NextActions]_vars

(* --------------------------- backend: requests -------------------------- *)
\* a provider processes a prompt and returns its ActionResult
ProviderProcessPrompt ==
    /\ \E outcome \in ProviderOutcomes :
         backend' = [ svc \in DOMAIN backend \cup {"provider"} |->
                        IF svc = "provider"
                        THEN [ request |-> outcome, result |-> ProcessPrompt(outcome) ]
                        ELSE backend[svc] ]
    /\ UNCHANGED << containerVars, editVars >>

\* the progress of a job is asked for and the Colab server has answered
ColabProgress ==
    /\ \E progress_data \in ColabResponses :
         backend' = [ svc \in DOMAIN backend \cup {"colab"} |->
                        IF svc = "colab"
                        THEN [ request |-> progress_data,
                               result |-> GetColabProgress(progress_data) ]
                        ELSE backend[svc] ]
    /\ UNCHANGED << containerVars, editVars >>

NextBackend ==
    \/ ProviderProcessPrompt
    \/ ColabProgress

SpecBackend == Init /\ [][NextBackend]_vars

(* ------------------------------ properties ----------------------------- *)
Last(q) == q[Len(q)]

\* the step in which editClips of slot s stores its edit in the history
Recorded(s) ==
    /\ edits[s].pc = "dispatch"
    /\ edits'[s].pc = "idle"
    /\ editHistory' # editHistory

\* the step in which the executeUndo awaited by slot u resolves or rejects
UndoReturned(u) == undos[u].pc = "exec" /\ undos'[u].pc = "idle"

\* the step in which handleUndo of slot u calls executeUndo
UndoCalled(u) == undos[u].pc = "idle" /\ undos'[u].pc = "exec"

\* C1: in every reachable state, overlapping callbacks included,
\* 0 <= chatCutUndosCount <= editHistory.length
C1_CursorWithinHistory ==
    /\ 0 <= chatCutUndosCount
    /\ chatCutUndosCount <= Len(editHistory)

\* C2: with serialized turns, recording a successful edit with history h and
\* cursor c gives (first length(h) - c entries of h) + new entry and cursor 0 when
\* c > 0, and h + new entry with the cursor still 0 when c = 0
C2_RecordEditSerialized ==
    [][ \A s \in EditSlots : Recorded(s) =>
          LET h == editHistory
              c == chatCutUndosCount
              entry == Last(editHistory')
          IN  /\ entry.id = edits[s].id
              /\ entry.actionName = edits[s].action
              /\ entry.trackItems = edits[s].trackItems
              /\ IF c > 0
                 THEN /\ editHistory' = SubSeq(h, 1, Len(h) - c) \o << entry >>
                      /\ chatCutUndosCount' = 0
                 ELSE /\ editHistory' = h \o << entry >>
                      /\ chatCutUndosCount' = 0 ]_vars

\* C2's example: [e1, e2, e3] with two entries undone, then a fourth edit
C2_TrimmedToFirstAndNew ==
    /\ serialized
    /\ Len(editHistory) = 2
    /\ editHistory[1].id = 1
    /\ editHistory[2].id = 4
    /\ chatCutUndosCount = 0
    /\ applied = {1, 2, 3, 4}
    /\ reversals[1] = 0 /\ reversals[2] = 1 /\ reversals[3] = 1

\* C3: with cursor < N, handleUndo passes the entry at index N - cursor - 1 to
\* executeUndo; when executeUndo reports a success the cursor grows by exactly 1
\* and the history is unchanged
C3_UndoSelectsAndAdvances ==
    [][ \A u \in UndoSlots :
          /\ (chatCutUndosCount < Len(editHistory) /\ HandleUndo(u)) => UndoCalled(u)
          /\ UndoCalled(u) =>
                /\ chatCutUndosCount < Len(editHistory)
                /\ undos'[u].historyEntry =
                       editHistory[(Len(editHistory) - chatCutUndosCount - 1) + 1]
          /\ (UndoReturned(u) /\ reversals' # reversals) =>
                /\ chatCutUndosCount' = chatCutUndosCount + 1
                /\ editHistory' = editHistory ]_vars

\* two edits recorded, then an undo that reversed the second one
C3_LastEditUndone ==
    /\ Len(editHistory) = 2
    /\ chatCutUndosCount = 1
    /\ reversals[editHistory[2].id] = 1
    /\ reversals[editHistory[1].id] = 0
    /\ UndosInFlight = {}

\* C4: when executeUndo reports no success or throws, handleUndo leaves cursor and
\* history unchanged, appends a failure message and lets no exception escape
C4_UndoFailureHandled ==
    [][ \A u \in UndoSlots : (UndoReturned(u) /\ reversals' = reversals) =>
          /\ chatCutUndosCount' = chatCutUndosCount
          /\ editHistory' = editHistory
          /\ Len(message') = Len(message) + 1
          /\ SubSeq(message', 1, Len(message)) = message
          /\ Last(message').sender = "bot"
          /\ Last(message').tag \in {"UndoFailed", "UndoError"}
          /\ unhandled' = unhandled ]_vars

\* C5: with cursor = length(history), handleUndo never calls executeUndo, changes
\* neither history nor cursor and only appends the "nothing to undo" messages
C5_NothingToUndo ==
    [][ chatCutUndosCount = Len(editHistory) =>
          /\ \A u \in UndoSlots : ~UndoCalled(u)
          /\ (\E u \in UndoSlots : HandleUndo(u)) =>
                /\ message' = message \o << BotMsg("NoEditsToUndo"), BotMsg("UndoTip") >>
                /\ UNCHANGED << processMediaMode, editHistory, chatCutUndosCount, edits,
                                undos, applied, reversals, unhandled >> ]_vars

\* an undo click on a non-empty history whose entries are all undone
C5_ClickedWithAllUndone ==
    /\ Len(editHistory) > 0
    /\ chatCutUndosCount = Len(editHistory)
    /\ UndosInFlight = {}
    /\ Len(message) >= 2
    /\ message[Len(message) - 1].tag = "NoEditsToUndo"
    /\ Last(message).tag = "UndoTip"

\* C6: with serialized turns, a successful undo reverses exactly the most recent
\* entry not yet undone, once, and moves the cursor by 1; an undo with the cursor at
\* the history length reverses nothing and leaves history and cursor unchanged
C6_UndoRoundTrip ==
    [][ /\ \A u \in UndoSlots : (UndoReturned(u) /\ reversals' # reversals) =>
              /\ chatCutUndosCount < Len(editHistory)
              /\ LET entry == editHistory[Len(editHistory) - chatCutUndosCount]
                 IN  /\ reversals[entry.id] = 0
                     /\ reversals' = [reversals EXCEPT ![entry.id] = 1]
              /\ chatCutUndosCount' = chatCutUndosCount + 1
              /\ editHistory' = editHistory
        /\ chatCutUndosCount = Len(editHistory) =>
              /\ reversals' = reversals
              /\ (\E u \in UndoSlots : HandleUndo(u)) =>
                    UNCHANGED << editHistory, chatCutUndosCount, applied, undos >> ]_vars

\* the round trip from the empty history: one edit, its undo, and a second click
C6_RoundTripDone ==
    /\ serialized
    /\ nSends = 1
    /\ Len(editHistory) = 1
    /\ editHistory[1].id = 1
    /\ chatCutUndosCount = 1
    /\ reversals[1] = 1
    /\ message = << BotMsg("NoEditsToUndo"), BotMsg("UndoTip") >>

\* C7: in every reachable state the trailing chatCutUndosCount entries of the
\* history are exactly the entries reversed by a successful undo
C7_TrailingEntriesAreUndone ==
    \A i \in 1..Len(editHistory) :
        (i > Len(editHistory) - chatCutUndosCount) <=> (reversals[editHistory[i].id] > 0)

\* C8: the update that records an edit trims by the cursor as it is at the update
\* and resets it, whatever completed since the turn started
C8_RecordReadsCurrentCursor ==
    [][ \A s \in EditSlots : Recorded(s) =>
          /\ Len(editHistory') = Len(editHistory) - chatCutUndosCount + 1
          /\ \A i \in 1..(Len(editHistory) - chatCutUndosCount) :
                editHistory'[i] = editHistory[i]
          /\ chatCutUndosCount' = 0 ]_vars

\* C9: at most one prompt-processing request is outstanding at any time
C9_OneOutstandingRequest == Cardinality(OutstandingRequests) <= 1

\* C10: the history changes only in the step in which dispatchAction returns with
\* successful > 0; when it reports no success or throws, history and cursor stay
C10_EntryOnlyAfterSuccess ==
    [][ /\ editHistory' # editHistory =>
              \E s \in EditSlots :
                  /\ edits[s].pc = "dispatch"
                  /\ edits'[s].pc = "idle"
                  /\ edits[s].id \in applied' \ applied
                  /\ Last(editHistory').id = edits[s].id
        /\ \A s \in EditSlots :
              (edits[s].pc = "dispatch" /\ edits'[s].pc = "idle" /\ applied' = applied) =>
                  /\ editHistory' = editHistory
                  /\ chatCutUndosCount' = chatCutUndosCount ]_vars

\* a dispatch without any success after an earlier edit was recorded and undone
C10_FailedDispatchKeptHistory ==
    /\ Len(editHistory) = 1
    /\ chatCutUndosCount = 1
    /\ nSends = 2
    /\ EditsInFlight = {}
    /\ message # <<>>
    /\ Last(message).tag = "FailedToApply"
    /\ applied = {1}

\* C11: in every edit turn dispatchAction starts only in the step in which the
\* turn's own capturePreviousState has resolved, the host is mutated only by a turn
\* that holds its snapshot, and the entry recorded carries that same snapshot
C11_CaptureBeforeDispatch ==
    [][ \A s \in EditSlots :
          /\ (edits'[s].pc = "dispatch" /\ edits[s].pc # "dispatch") =>
                /\ edits[s].pc = "capture"
                /\ edits'[s].id = edits[s].id
                /\ edits'[s].previousState = edits[s].id
          /\ (edits[s].pc = "dispatch" /\ edits[s].id \in applied' \ applied) =>
                edits[s].previousState = edits[s].id
          /\ (edits[s].pc # "dispatch" /\ edits[s].id # 0) =>
                edits[s].id \notin applied' \ applied
          /\ Recorded(s) =>
                /\ Last(editHistory').id = edits[s].id
                /\ Last(editHistory').previousState = edits[s].id ]_vars

\* two overlapping turns recorded in the reverse of the order they were sent,
\* each entry with the snapshot of its own turn
C11_EachEntryOwnSnapshot ==
    /\ Len(editHistory) = 2
    /\ editHistory[1].id = 2 /\ editHistory[1].previousState = 2
    /\ editHistory[2].id = 1 /\ editHistory[2].previousState = 1

\* C12: after any single step the history is the old one, or a prefix of the old
\* one followed by exactly one entry that was not in it; the entries kept are
\* unchanged; undo and redo steps never change the history
C12_TrimThenAppendOnly ==
    [][ /\ \/ editHistory' = editHistory
           \/ \E k \in 0..Len(editHistory) :
                 /\ Len(editHistory') = k + 1
                 /\ SubSeq(editHistory', 1, k) = SubSeq(editHistory, 1, k)
                 /\ \A i \in 1..Len(editHistory) :
                       editHistory[i].id # Last(editHistory').id
        /\ ( \/ \E u \in UndoSlots : HandleUndo(u) \/ UndoReturned(u)
             \/ HandleRedo ) => editHistory' = editHistory ]_vars

\* the first edit was undone and a second edit recorded since: the undone entry
\* was trimmed and the new one appended
C12_UndoneEntryTrimmed ==
    /\ Len(editHistory) = 1
    /\ editHistory[1].id = 2
    /\ applied = {1, 2}
    /\ reversals[1] = 1
    /\ chatCutUndosCount = 0

\* C13: handleRedo appends the "not yet implemented" message and changes neither
\* the history nor the cursor nor the host nor anything else
C13_RedoIsNoOp ==
    [][ HandleRedo =>
          /\ message' = message \o << BotMsg("RedoNotImplemented") >>
          /\ UNCHANGED << editHistory, chatCutUndosCount, applied, reversals, edits,
                          undos, processMediaMode, unhandled >> ]_vars

\* redo clicked after an edit was undone
C13_RedoAfterUndo ==
    /\ Len(editHistory) = 1
    /\ chatCutUndosCount = 1
    /\ reversals[editHistory[1].id] = 1
    /\ message = << BotMsg("RedoNotImplemented") >>

\* C14: canUndo is chatCutUndosCount < editHistory.length, and a handleUndo
\* invocation calls executeUndo exactly when canUndo holds in the state it reads
C14_UndoOfferedIffItActs ==
    [][ /\ CanUndo(editHistory, chatCutUndosCount) <=> chatCutUndosCount < Len(editHistory)
        /\ \A u \in UndoSlots :
              /\ HandleUndo(u) => (UndoCalled(u) <=> CanUndo(editHistory, chatCutUndosCount))
              /\ UndoCalled(u) => CanUndo(editHistory, chatCutUndosCount) ]_vars

\* an undo in flight for the second of two edits
C14_UndoActingOnSecondEdit ==
    /\ Len(editHistory) = 2
    /\ chatCutUndosCount = 0
    /\ undos[1].pc = "exec"
    /\ undos[1].historyEntry = editHistory[2]

(* ------------------ properties of the editing actions ------------------ *)
\* how many of the per-item calls of the batch returned `value`
Returned(value) ==
    Cardinality({ k \in 1..Len(batch.returns) : batch.returns[k] = value })

\* the zoomIn invocations that have not returned
ActiveZooms == { it \in DOMAIN zoom : zoom[it].pc \notin {"idle", "returned", "threw"} }

\* the host mutations issued and not yet completed
KeyframeWritesInFlight == { it \in DOMAIN zoom : zoom[it].pc \in {"startKf", "endKf"} }
EffectMutationInFlight == effect.pc \in {"append", "setValue", "execute"}

\* C15: zoomInBatch and zoomOutBatch return { successful, failed } with successful
\* the number of items whose operation returned true, failed the number whose
\* operation returned false, and successful + failed the number of items
C15_BatchOutcomeCounts ==
    /\ batch.successful = Returned(TRUE)
    /\ batch.failed = Returned(FALSE)
    /\ batch.pc = "returned" =>
          /\ Len(batch.returns) = Len(batch.trackItems)
          /\ batch.result.successful = Returned(TRUE)
          /\ batch.result.failed = Returned(FALSE)
          /\ batch.result.successful + batch.result.failed = Len(batch.trackItems)

\* C15's example: 5 items, the host fails on exactly 2 of them
C15_ThreeOkTwoFailed ==
    /\ batch.pc = "returned"
    /\ Len(batch.trackItems) = 5
    /\ Returned(FALSE) = 2
    /\ batch.result = [ successful |-> 3, failed |-> 2 ]

\* C16: a failure on one item (a throw or a false result) never aborts the batch
\* and never escapes; the items are called in order, each once, and the batch
\* returns only after the last one
C16_BestEffortBatch ==
    /\ batch.pc # "threw"
    /\ \A it \in DOMAIN zoom : zoom[it].pc # "threw"
    /\ Len(batch.called) <= Len(batch.trackItems)
    /\ batch.called = SubSeq(batch.trackItems, 1, Len(batch.called))
    /\ Len(batch.returns) = batch.i
    /\ Len(batch.called) \in {batch.i, batch.i + 1}
    /\ batch.pc = "returned" => batch.called = batch.trackItems

\* a host call threw on the first of three items (the catch block of zoomIn ran),
\* and the two items after it were zoomed
C16_FirstThrewOthersZoomed ==
    /\ batch.pc = "returned"
    /\ batch.returns = << FALSE, TRUE, TRUE >>
    /\ strayEnds = 1
    /\ keyframes[1] = <<>>
    /\ Len(keyframes[2]) = 2
    /\ Len(keyframes[3]) = 2

\* C17: at most one zoomIn of the batch runs and at most one keyframe write is in
\* flight at any time; zoomIn is called on an item only when the call on the item
\* before it has returned, and the end keyframe write is issued only in the step in
\* which the start keyframe write completed
C17_SequentialHostMutations ==
    [][ /\ Cardinality(ActiveZooms') <= 1
        /\ Cardinality(KeyframeWritesInFlight') <= 1
        /\ \A it \in DOMAIN zoom :
              /\ (zoom[it].pc = "idle" /\ zoom'[it].pc # "idle") =>
                    /\ \A other \in DOMAIN zoom : zoom[other].pc = "idle"
                    /\ batch.i = Len(batch.called)
              /\ (zoom[it].pc # "endKf" /\ zoom'[it].pc = "endKf") =>
                    /\ zoom[it].pc = "startKf"
                    /\ Len(keyframes'[it]) = Len(keyframes[it]) + 1 ]_vars

\* the end keyframe of the second item is being written after both keyframes of
\* the first item were
C17_SecondItemEndKeyframeInFlight ==
    /\ 2 \in DOMAIN zoom
    /\ zoom[2].pc = "endKf"
    /\ Len(keyframes[1]) = 2
    /\ Len(keyframes[2]) = 1
    /\ batch.i = 1

\* C18: every host mutation issued by zoomIn, zoomOut, applyBlur, applyTransition
\* and applyFilter is in flight only while the host has an undo group open that
\* was begun with a ChatCut label
C18_MutationsInsideUndoGroup ==
    (KeyframeWritesInFlight # {} \/ EffectMutationInFlight) =>
        /\ undoGroups # <<>>
        /\ Last(undoGroups) \in ChatCutLabels

\* C19: zoomIn uses startScale 100 and endScale 150 when the caller gives none,
\* zoomOut 150 and 100; a value given by the caller is used as it is, and zoomOut
\* passes every other option to zoomIn unchanged
C19_ZoomDefaults ==
    \A it \in DOMAIN zoom : zoom[it].pc # "idle" =>
        LET o == batch.options
            f == zoom[it].options
        IN  /\ batch.op = "zoomInBatch" =>
                  /\ f = o
                  /\ ZoomInStartScale(f) = IF "startScale" \in o.own THEN o.startScale ELSE 100
                  /\ ZoomInEndScale(f) = IF "endScale" \in o.own THEN o.endScale ELSE 150
            /\ batch.op = "zoomOutBatch" =>
                  /\ ZoomInStartScale(f) = IF "startScale" \in o.own THEN o.startScale ELSE 150
                  /\ ZoomInEndScale(f) = IF "endScale" \in o.own THEN o.endScale ELSE 100
                  /\ \A k \in OptionKeys \ {"startScale", "endScale"} :
                        /\ k \in f.own <=> k \in o.own
                        /\ f[k] = o[k]

\* an animated zoomOut without scales went from 150 to 100 over the clip
C19_ZoomOutMirrored ==
    /\ batch.op = "zoomOutBatch"
    /\ batch.options.own = {"animated"}
    /\ 1 \in DOMAIN keyframes
    /\ keyframes[1] = << Keyframe(0, 150, "BEZIER"), Keyframe(4, 100, "BEZIER") >>

\* C20: a zoom that returns true has written, last, a keyframe at the start time
\* and one at the end time; the end one holds endScale; the start one holds
\* startScale when animated is true, and endScale when it is false or not given
C20_StaticVersusAnimated ==
    [][ \A it \in DOMAIN zoom :
          (zoom[it].pc # "returned" /\ zoom'[it].pc = "returned" /\ zoom'[it].ret) =>
              LET o == zoom[it].options
                  w == keyframes'[it]
                  n == Len(w)
                  startTime == ClipInPoint(it) + (IF "startTime" \in o.own THEN o.startTime ELSE 0)
                  animated == "animated" \in o.own /\ o.animated
              IN  /\ n >= 2
                  /\ w[n - 1].at = startTime
                  /\ w[n].at = startTime + ZoomDuration(o, it)
                  /\ w[n].value = ZoomInEndScale(o)
                  /\ w[n - 1].value = IF animated THEN ZoomInStartScale(o)
                                                  ELSE ZoomInEndScale(o) ]_vars

\* a static zoom called with startScale 80: 150 was written at both times
C20_StaticIgnoresStartScale ==
    /\ batch.op = "zoomInBatch"
    /\ "startScale" \in batch.options.own
    /\ batch.options.startScale = 80
    /\ 1 \in DOMAIN keyframes
    /\ keyframes[1] = << Keyframe(1, 150, "BEZIER"), Keyframe(3, 150, "BEZIER") >>

(* ------------- properties of the editing actions, continued ------------ *)
\* applyBlur / applyTransition / applyFilter returned `value`
EffectReturned(op, value) ==
    effect.op = op /\ effect.pc = "returned" /\ effect.ret = value

\* C21: a blur that returned true has set Blurriness to the number it was given
\* and to 50 when it was given no number; a transition that returned true was
\* added with the duration, applyToStart and alignment it was given with the
\* right type, and with 1.0 s, true and 0.5 otherwise
C21_BlurAndTransitionDefaults ==
    /\ EffectReturned("applyBlur", TRUE) =>
          LET chain == componentChain[effect.item]
              arg == effect.given.blurriness
          IN  /\ FindBlurrinessParam(chain) # 0
              /\ chain[FindBlurrinessParam(chain)].value =
                     IF arg.type = "number" THEN arg.value ELSE BlurDefault
    /\ EffectReturned("applyTransition", TRUE) =>
          LET added == Last(transitions[effect.item])
              arg == effect.given.transition
          IN  /\ added.duration = IF arg.durationSeconds.type = "number"
                                  THEN arg.durationSeconds.num
                                  ELSE TransitionDefaultDuration
              /\ added.applyToStart = IF arg.applyToStart.type = "boolean"
                                      THEN arg.applyToStart.bool ELSE TRUE
              /\ added.transitionAlignment =
                     IF arg.transitionAlignment.type = "number"
                     THEN arg.transitionAlignment.num ELSE TransitionDefaultAlignment

\* a blur given a string was set to 50, then a transition given arguments of
\* the wrong types was added with the three defaults
C21_WrongTypesGetDefaults ==
    /\ EffectReturned("applyTransition", TRUE)
    /\ effect.given.transition.durationSeconds.type = "string"
    /\ effect.given.transition.applyToStart.type = "number"
    /\ effect.given.transition.transitionAlignment.type = "boolean"
    /\ Last(transitions[effect.item]) =
          VideoTransition("AE.ADBE Cross Dissolve New", TRUE, 10, 5)
    /\ componentChain[effect.item] = << Component(GaussianBlur, 50) >>

C27_NoUnmatchedEndUndoGroup ==
    /\ strayEnds = 0
    /\ \A it \in DOMAIN zoom : zoom[it].ends <= zoom[it].begins

C29_FalseLeavesItemUntouched ==
    /\ \A it \in DOMAIN zoom :
          (zoom[it].pc = "returned" /\ ~zoom[it].ret) => keyframes[it] = <<>>
    /\ EffectReturned("applyBlur", FALSE) => effect.appended = 0

\* the components of a chain that expose a Blurriness parameter
BlurComponents(chain) == { i \in 1..Len(chain) : chain[i].matchName = GaussianBlur }

C38_UnknownNameReturnsFalse ==
    [][ ( /\ effect.pc = "matchNames"
          /\ \/ /\ effect.op = "applyFilter"
                /\ \A n \in FilterMatchNames : n # effect.name
             \/ /\ effect.op = "applyTransition"
                /\ \A n \in TransitionMatchNames :
                      ToLowerCase(n) # ToLowerCase(effect.name) ) =>
          /\ effect'.pc = "returned"
          /\ effect'.ret = FALSE
          /\ UNCHANGED << componentChain, transitions, undoGroups, strayEnds, keyframes >> ]_vars

\* applyFilter was asked for a filter in lower case, the host lists it in mixed
\* case: it returned false without a fault and the item has no component
C38_FilterNameInWrongCase ==
    /\ EffectReturned("applyFilter", FALSE)
    /\ effect.name = "ae.adbe invert"
    /\ ~effect.faulted
    /\ componentChain[effect.item] = <<>>
    /\ transitions[effect.item] = <<>>

C25_NotFoundIsReported ==
    ( /\ "colab" \in DOMAIN backend
      /\ backend["colab"].request.json
      /\ backend["colab"].request.status = "not_found" ) =>
       LET r == backend["colab"].result
       IN  /\ r.status = "not_found"
           /\ r.status # "processing"
           /\ r.error = "JOB_NOT_FOUND"
           /\ r.progress = 0
           /\ r.output_path = None

\* the server answered not_found with a progress of 40 and no error text: the
\* report has progress 0 and the default text
C25_NotFoundWithProgress ==
    /\ "colab" \in DOMAIN backend
    /\ backend["colab"].request.json
    /\ backend["colab"].request.status = "not_found"
    /\ backend["colab"].request.keys = {"progress"}
    /\ backend["colab"].request.progress = 40
    /\ backend["colab"].result.progress = 0
    /\ backend["colab"].result.message = << "Job not found: ", "Job not found" >>
    /\ backend["colab"].result.error = "JOB_NOT_FOUND"

(* ------------------ properties of the session, continued --------------- *)
\* the step in which the edit turn of slot s ends
TurnEnded(s) == edits[s].pc # "idle" /\ edits'[s].pc = "idle"

\* C22: whatever an awaited call of a turn rejects with, the promise of
\* onSend / selectClips and the promise of handleUndo never reject
C22_NoFaultEscapes == unhandled = {}

\* C23: every edit turn that ends without recording its edit, and every undo that
\* returns without reversing an entry, has appended a bot message in that step
C23_EveryTurnEndsWithFeedback ==
    [][ /\ \A s \in EditSlots : (TurnEnded(s) /\ editHistory' = editHistory) =>
              /\ Len(message') > Len(message)
              /\ Last(message').sender = "bot"
        /\ \A u \in UndoSlots : (UndoReturned(u) /\ reversals' = reversals) =>
              /\ Len(message') > Len(message)
              /\ Last(message').sender = "bot" ]_vars

\* C31: an entry that leaves editHistory has been reversed by a successful
\* executeUndo
C31_OnlyUndoneEntriesDiscarded ==
    [][ \A i \in 1..Len(editHistory) :
          (\A j \in 1..Len(editHistory') : editHistory'[j].id # editHistory[i].id) =>
             reversals[editHistory[i].id] > 0 ]_vars

\* C32: every step leaves the chat log as it was and appends to it, whichever
\* callbacks are in flight; only clearConsole removes messages
C32_LogLosesNoUpdate ==
    [][ \/ ClearConsole
        \/ /\ Len(message') >= Len(message)
           /\ SubSeq(message', 1, Len(message)) = message ]_vars

\* two sends overlap: the log holds the text of the first, then of the second
C32_TwoTurnsInterleaved ==
    /\ edits[1].pc = "select"
    /\ edits[2].pc = "select"
    /\ Len(message) = 2
    /\ message[1] = Msg("user", "Text", 0, << "z" >>)
    /\ message[2] = Msg("user", "Text", 0, << "z" >>)

\* C33: a response without an action ends the turn (or, for a media response
\* with FILE_ACCESS_ERROR, sends it on to processPrompt) and changes neither the
\* host nor the history nor the undo count; a turn waits for
\* capturePreviousState or dispatchAction only with the action of its response
C33_NoActionNoEdit ==
    [][ /\ \A s \in EditSlots :
             (edits[s].pc \in {"prompt", "media"} /\ edits'[s].pc # edits[s].pc) =>
               \A r \in AiResponses :
                 (r.action = "absent" /\ (PromptResponse(s, r) \/ MediaResponse(s, r))) =>
                    /\ \/ edits'[s].pc = "idle"
                       \/ /\ edits[s].pc = "media"
                          /\ r.error = "FILE_ACCESS_ERROR"
                          /\ edits'[s].pc = "prompt"
                    /\ UNCHANGED << editHistory, chatCutUndosCount, applied, reversals >>
        /\ \A s \in EditSlots :
             edits'[s].pc \in {"capture", "dispatch"} => edits'[s].action # "absent" ]_vars

\* a turn has ended on a response that named no action (none at all, or only
\* a list of actions) and nothing has been edited
C33_TurnEndedWithoutAction ==
    /\ \A s \in EditSlots : edits[s].pc = "idle"
    /\ message # <<>>
    /\ Last(message) = BotMsg("CouldNotUnderstand")
    /\ applied = {}
    /\ editHistory = <<>>
    /\ chatCutUndosCount = 0

\* C34: a turn asks for file paths only with media mode on, calls processMedia
\* only after it got at least one path, and calls processPrompt only with media
\* mode off, after it got no path, or after processMedia answered
\* FILE_ACCESS_ERROR; it never goes back to a request it has made
C34_RequestRouting ==
    [][ \A s \in EditSlots :
          edits'[s].pc # edits[s].pc =>
            /\ edits[s].pc = "select" =>
                  edits'[s].pc \in {"idle", IF edits[s].mediaMode THEN "paths" ELSE "prompt"}
            /\ edits[s].pc = "paths" =>
                  /\ edits'[s].pc \in {"idle", "media", "prompt"}
                  /\ \A n \in FilePathCounts :
                       PathsFound(s, n) =>
                         edits'[s].pc = IF n > 0 THEN "media" ELSE "prompt"
            /\ edits[s].pc = "media" =>
                  /\ edits'[s].pc \in {"idle", "prompt", "capture"}
                  /\ \A r \in AiResponses :
                       MediaResponse(s, r) =>
                         (edits'[s].pc = "prompt" <=> r.error = "FILE_ACCESS_ERROR")
            /\ edits[s].pc = "prompt" => edits'[s].pc \in {"idle", "capture"}
            /\ edits[s].pc = "capture" => edits'[s].pc \in {"idle", "dispatch"}
            /\ edits[s].pc = "dispatch" => edits'[s].pc = "idle"
            /\ edits[s].pc = "idle" => edits'[s].pc = "select" ]_vars

\* the only turn so far sent two file paths, processMedia answered
\* FILE_NOT_FOUND, and the turn ended there
C34_FileNotFoundEndsTurn ==
    /\ \A s \in EditSlots : edits[s].pc = "idle"
    /\ nSends = 2
    /\ message = << BotMsgN("SendingMediaPaths", 2), BotMsg("CouldNotUnderstand"),
                    BotMsgT("AiError", << "FILE_NOT_FOUND" >>) >>

\* C35: a send of empty or white-space-only text changes nothing; any other
\* send appends one user message holding the text without the white space
\* around it, and nothing else, as the first step of its turn
C35_SendAppendsTrimmedText ==
    [][ \A s \in EditSlots, text \in Texts :
          OnSendText(s, text) =>
            IF \A i \in 1..Len(text) : text[i] = " "
            THEN vars' = vars
            ELSE /\ Len(message') = Len(message) + 1
                 /\ SubSeq(message', 1, Len(message)) = message
                 /\ Last(message').sender = "user"
                 /\ \E i, j \in 1..Len(text) :
                      /\ text[i] # " " /\ text[j] # " "
                      /\ \A k \in 1..Len(text) : (k < i \/ k > j) => text[k] = " "
                      /\ Last(message').text = SubSeq(text, i, j)
                 /\ edits[s].pc = "idle"
                 /\ edits'[s].pc = "select" ]_vars

\* a text with white space around it was sent while another turn's message
\* was in the log
C35_TrimmedTextSent ==
    /\ \E s \in EditSlots : edits[s].pc = "select" /\ edits[s].text = << " ", "z", " " >>
    /\ Len(message) = 2
    /\ message[1].sender = "bot"
    /\ message[2] = Msg("user", "Text", 0, << "z" >>)

\* C36: a turn that leaves selectClips without a target (no selected clip has a
\* video component, or reading the selection failed) ends there, makes no
\* request and changes neither the host nor the history nor the undo count;
\* otherwise its targets are the selected clips with a video component, each
\* once, in the order of the selection
C36_NoSelectionNoRequest ==
    [][ \A s \in EditSlots :
          (edits[s].pc = "select" /\ edits'[s].pc # "select") =>
            /\ edits'[s].pc = "idle" =>
                  UNCHANGED << editHistory, chatCutUndosCount, applied, reversals >>
            /\ SelectThrew(s) => edits'[s].pc = "idle"
            /\ \A selection \in Selections, hasVideo \in VideoClipSets :
                  SelectionRead(s, selection, hasVideo) =>
                    IF \A i \in 1..Len(selection) : selection[i] \notin hasVideo
                    THEN edits'[s].pc = "idle"
                    ELSE LET t == edits'[s].trackItems
                         IN  /\ edits'[s].pc \in {"paths", "prompt"}
                             /\ { t[i] : i \in 1..Len(t) } =
                                  { selection[i] : i \in 1..Len(selection) } \cap hasVideo
                             /\ \E f \in [1..Len(t) -> 1..Len(selection)] :
                                  /\ \A i \in 1..Len(t) : t[i] = selection[f[i]]
                                  /\ \A i, j \in 1..Len(t) : i < j => f[i] < f[j] ]_vars

\* a text was sent while no selected clip had a video component: the turn
\* ended with the notice and nothing was edited
C36_NoVideoClipTurnEnded ==
    /\ \A s \in EditSlots : edits[s].pc = "idle"
    /\ nSends = 2
    /\ message = << BotMsg("NoVideoClipsSelected") >>
    /\ applied = {}
    /\ editHistory = <<>>

\* C30: no entry of the history has been reversed by more than one successful
\* executeUndo
C30_NoEntryReversedTwice ==
    \A i \in 1..Len(editHistory) : reversals[editHistory[i].id] <= 1

====
